---- MODULE Spec2Model ----
(* Model of src/book_search.js: Book, PageLine, PageLineText, SearchResult *)
(* and findSearchTermInBooks.  Strings are sequences of UTF-16 code units, *)
(* JavaScript values are tagged records, thrown errors are recorded in err. *)
EXTENDS Integers, Sequences, FiniteSets, TLC

(***************************************************************************)
(* Characters (code units) used by the source.                             *)
(***************************************************************************)
Hyphen == 45
Space == 32
Apostrophe == 39
Digit0 == 48
Digit9 == 57

\* The code units the inputs of the model are written with: a, A, hyphen, space.
LowerA == 97
UpperA == 65
Alphabet == {LowerA, UpperA, Hyphen, Space}

(***************************************************************************)
(* JavaScript values: a string (s), a number n + 1/2 if h, null, undefined.*)
(***************************************************************************)
Str(s) == [t |-> "string", s |-> s, n |-> 0, h |-> FALSE]
Num(n) == [t |-> "number", s |-> <<>>, n |-> n, h |-> FALSE]
NumHalf(n) == [t |-> "number", s |-> <<>>, n |-> n, h |-> TRUE]
Null == [t |-> "null", s |-> <<>>, n |-> 0, h |-> FALSE]
Undefined == [t |-> "undefined", s |-> <<>>, n |-> 0, h |-> FALSE]

\* typeof(value); "plain" tags an object that is not an array: {}
TypeOf(v) == IF v.t \in {"null", "plain"} THEN "object" ELSE v.t

\* function isNull(value): value == null
isNull(v) == v.t \in {"null", "undefined"}

(***************************************************************************)
(* String primitives of the language, on sequences of code units.          *)
(***************************************************************************)
\* White space as String.prototype.trim() defines it.
IsWhiteSpace(c) ==
    c \in {9, 10, 11, 12, 13, 32, 160, 5760, 8232, 8233, 8239, 8287, 12288, 65279}
    \/ (c >= 8192 /\ c <= 8202)

RECURSIVE TrimStart(_)
TrimStart(s) ==
    IF s # <<>> /\ IsWhiteSpace(Head(s)) THEN TrimStart(Tail(s)) ELSE s

RECURSIVE TrimEnd(_)
TrimEnd(s) ==
    IF s # <<>> /\ IsWhiteSpace(s[Len(s)]) THEN TrimEnd(SubSeq(s, 1, Len(s) - 1)) ELSE s

\* String.prototype.trim()
Trim(s) == TrimEnd(TrimStart(s))

\* String.prototype.startsWith(p)
StartsWith(s, p) == Len(p) <= Len(s) /\ SubSeq(s, 1, Len(p)) = p

\* String.prototype.endsWith(p)
EndsWith(s, p) == Len(p) <= Len(s) /\ SubSeq(s, Len(s) - Len(p) + 1, Len(s)) = p

\* String.prototype.includes(p)
Includes(s, p) ==
    \E i \in 0..(Len(s) - Len(p)) : SubSeq(s, i + 1, i + Len(p)) = p

\* String.prototype.substring(start) for 0 <= start
Substring(s, start) == SubSeq(s, start + 1, Len(s))

\* String.prototype.replace("-", ""): only the first occurrence is removed.
ReplaceFirstHyphen(s) ==
    IF \E i \in 1..Len(s) : s[i] = Hyphen
    THEN LET i == CHOOSE k \in 1..Len(s) :
                     s[k] = Hyphen /\ \A j \in 1..(k - 1) : s[j] # Hyphen
         IN  SubSeq(s, 1, i - 1) \o SubSeq(s, i + 1, Len(s))
    ELSE s

\* An includes that is satisfied by an element containing x.
ArrIncludesSubstring(arr, x) == \E i \in 1..Len(arr) : Includes(arr[i], x)

\* Array.prototype.includes(x)
ArrIncludes(arr, x) == \E i \in 1..Len(arr) : arr[i] = x

(***************************************************************************)
(* Book.#WORD_REGEX = /[A-Za-z'\-À-ÖØ-Ýà-öø-ÿ]+/g and string.match on it.  *)
(***************************************************************************)
\* The class with one range for all accented letters: À-ÿ
IsWordCharLatin1(c) ==
    \/ (c >= 65 /\ c <= 90)
    \/ (c >= 97 /\ c <= 122)
    \/ c = Apostrophe
    \/ c = Hyphen
    \/ (c >= 192 /\ c <= 255)

IsWordChar(c) ==
    \/ (c >= 65 /\ c <= 90)
    \/ (c >= 97 /\ c <= 122)
    \/ c = Apostrophe
    \/ c = Hyphen
    \/ (c >= 192 /\ c <= 214)
    \/ (c >= 216 /\ c <= 221)
    \/ (c >= 224 /\ c <= 246)
    \/ (c >= 248 /\ c <= 255)

\* Last index of the maximal run of word characters that starts at i.
RunEnd(s, i) ==
    CHOOSE j \in i..Len(s) :
        /\ \A k \in i..j : IsWordChar(s[k])
        /\ (j = Len(s) \/ ~IsWordChar(s[j + 1]))

RECURSIVE MatchFrom(_, _)
MatchFrom(s, i) ==
    IF i > Len(s) THEN <<>>
    ELSE IF ~IsWordChar(s[i]) THEN MatchFrom(s, i + 1)
    ELSE <<SubSeq(s, i, RunEnd(s, i))>> \o MatchFrom(s, RunEnd(s, i) + 1)

\* text.match(WORD_REGEX): the list of matches; the empty list stands for null.
Match(s) == MatchFrom(s, 1)

(***************************************************************************)
(* Property keys: Number to String, and the key's first code unit.         *)
(***************************************************************************)
\* The integers of the model have 32 bits. The numbers from 2^32 - 1 on, the
\* first that are not array indices, are written Beyond + k for
\* 4294967295 + k; no number between is used. Their decimal strings are
\* computed in two parts, 42949 and 67295 + k.
Beyond == 1000000

\* The key is an array index: a canonical numeric string below 2^32 - 1.
IsArrayIndex(n) == n < Beyond

RECURSIVE Decimal(_)
Decimal(n) ==
    IF n < 10 THEN <<Digit0 + n>> ELSE Decimal(n \div 10) \o <<Digit0 + (n % 10)>>

\* The last five decimal digits of n.
Decimal5(n) ==
    [i \in 1..5 |-> Digit0 + ((n \div (10 ^ (5 - i))) % 10)]

\* String(n) of a positive integer
NumberToString(n) ==
    IF IsArrayIndex(n) THEN Decimal(n)
    ELSE LET low == 67295 + (n - Beyond)
         IN  Decimal(42949 + (low \div 100000)) \o Decimal5(low % 100000)

RECURSIVE ParseDecimal(_)
ParseDecimal(k) ==
    IF k = <<>> THEN 0
    ELSE 10 * ParseDecimal(SubSeq(k, 1, Len(k) - 1)) + (k[Len(k)] - Digit0)

\* The number a key stands for.
ParseKey(k) ==
    IF Len(k) < 10 THEN ParseDecimal(k)
    ELSE LET high == ParseDecimal(SubSeq(k, 1, Len(k) - 5))
             low == ParseDecimal(SubSeq(k, Len(k) - 4, Len(k)))
         IN  Beyond + (high - 42949) * 100000 + (low - 67295)

RECURSIVE Ascending(_)
Ascending(S) ==
    IF S = {} THEN <<>>
    ELSE LET m == CHOOSE x \in S : \A y \in S : x <= y
         IN  <<m>> \o Ascending(S \ {m})

\* The elements of a sequence in the order of their first occurrence.
RECURSIVE FirstOccurrences(_)
FirstOccurrences(seq) ==
    IF seq = <<>> THEN <<>>
    ELSE LET front == FirstOccurrences(SubSeq(seq, 1, Len(seq) - 1))
             x == seq[Len(seq)]
         IN  IF \E i \in 1..Len(front) : front[i] = x THEN front ELSE Append(front, x)

\* Object.keys(obj), order being the keys of obj in the order of their
\* creation: the array indices in ascending numeric order, then the other keys
\* in creation order; each key as its decimal string.
ObjectKeys(obj, order) ==
    LET asc == Ascending({k \in DOMAIN obj : IsArrayIndex(k)})
        IsOther(k) == k \in DOMAIN obj /\ ~IsArrayIndex(k)
        all == asc \o SelectSeq(FirstOccurrences(order), IsOther)
    IN  [i \in 1..Len(all) |-> NumberToString(all[i])]

\* function comparator(a, b) of searchForTerm
comparator(a, b) == a[1] - b[1]

\* Array.prototype.sort(comparator): a stable sort.
RECURSIVE Insert(_, _)
Insert(sorted, x) ==
    IF sorted = <<>> THEN <<x>>
    ELSE IF comparator(sorted[Len(sorted)], x) <= 0 THEN Append(sorted, x)
    ELSE Append(Insert(SubSeq(sorted, 1, Len(sorted) - 1), x), sorted[Len(sorted)])

RECURSIVE Sort(_)
Sort(arr) ==
    IF arr = <<>> THEN <<>>
    ELSE Insert(Sort(SubSeq(arr, 1, Len(arr) - 1)), arr[Len(arr)])

(***************************************************************************)
(* Thrown errors, named after the check that throws them; NoError = none.  *)
(***************************************************************************)
NoError == "none"
DuplicateErrors == {"duplicate"}
\* The TypeError of match(...).shift() when match returned null.
SearchErrors == {"shift"}
ValidationErrors ==
    {"title", "isbn", "contentArr", "emptyTitle", "invalidISBN", "isbnType",
     "numType", "pageNum", "lineNum", "text", "notIterable", "searchTermType",
     "searchTermEmpty", "controlChars", "scannedTextObj"}

(***************************************************************************)
(* Book.validateISBN: regex /^\d{10}(\d{3})?$/ on a string, throws on any  *)
(* other type.                                                             *)
(***************************************************************************)
IsDigit(c) == c >= Digit0 /\ c <= Digit9

\* The regex without its end anchor: /^\d{10}(\d{3})?/
ISBNRegexTestUnanchored(s) ==
    /\ Len(s) >= 10
    /\ \A i \in 1..10 : IsDigit(s[i])

ISBNRegexTest(s) ==
    /\ Len(s) = 10 \/ Len(s) = 10 + 3
    /\ \A i \in 1..Len(s) : IsDigit(s[i])

validateISBN(isbnArg) ==
    IF TypeOf(isbnArg) # "string"
    THEN [err |-> "isbnType", val |-> FALSE]
    ELSE [err |-> NoError, val |-> ISBNRegexTest(isbnArg.s)]

(***************************************************************************)
(* PageLine, PageLineText and SearchResult constructors.                   *)
(***************************************************************************)
\* The check without its sign test: pageOrLineNum % 1 === 0 alone.
validatePageOrLineNumUnsigned(v) ==
    IF TypeOf(v) # "number"
    THEN [err |-> "numType", val |-> FALSE]
    ELSE [err |-> NoError, val |-> ~v.h]

\* static #validatePageOrLineNum
validatePageOrLineNum(v) ==
    IF TypeOf(v) # "number"
    THEN [err |-> "numType", val |-> FALSE]
    ELSE [err |-> NoError,
          val |-> (v.n > 0 \/ (v.n = 0 /\ v.h)) /\ ~v.h]

\* PageLine constructor, reached through a subclass: the error it throws.
PageLine(pageNum, lineNum) ==
    IF validatePageOrLineNum(pageNum).err # NoError THEN "numType"
    ELSE IF ~validatePageOrLineNum(pageNum).val THEN "pageNum"
    ELSE IF validatePageOrLineNum(lineNum).err # NoError THEN "numType"
    ELSE IF ~validatePageOrLineNum(lineNum).val THEN "lineNum"
    ELSE NoError

NoObject == [page |-> 0, line |-> 0, text |-> <<>>]

\* PageLineText constructor: super(pageNum, lineNum); this.#text = text.trim()
PageLineText(pageNum, lineNum, text) ==
    IF PageLine(pageNum, lineNum) # NoError
    THEN [err |-> PageLine(pageNum, lineNum), obj |-> NoObject]
    ELSE IF TypeOf(text) # "string"
    THEN [err |-> "text", obj |-> NoObject]
    ELSE [err |-> NoError,
          obj |-> [page |-> pageNum.n, line |-> lineNum.n, text |-> Trim(text.s)]]

NoResult == [ISBN |-> <<>>, Page |-> 0, Line |-> 0]

\* A constructor that hands its two numbers to super in the opposite order.
SearchResultSwapped(pageNum, lineNum, isbnArg) ==
    IF PageLine(Num(lineNum), Num(pageNum)) # NoError
    THEN [err |-> PageLine(Num(lineNum), Num(pageNum)), obj |-> NoResult]
    ELSE IF validateISBN(isbnArg).err # NoError
    THEN [err |-> validateISBN(isbnArg).err, obj |-> NoResult]
    ELSE IF ~validateISBN(isbnArg).val
    THEN [err |-> "invalidISBN", obj |-> NoResult]
    ELSE [err |-> NoError,
          obj |-> [ISBN |-> isbnArg.s, Page |-> lineNum, Line |-> pageNum]]

\* SearchResult constructor: super(pageNum, lineNum); ISBN check.
SearchResult(pageNum, lineNum, isbnArg) ==
    IF PageLine(Num(pageNum), Num(lineNum)) # NoError
    THEN [err |-> PageLine(Num(pageNum), Num(lineNum)), obj |-> NoResult]
    ELSE IF validateISBN(isbnArg).err # NoError
    THEN [err |-> validateISBN(isbnArg).err, obj |-> NoResult]
    ELSE IF ~validateISBN(isbnArg).val
    THEN [err |-> "invalidISBN", obj |-> NoResult]
    ELSE [err |-> NoError,
          obj |-> [ISBN |-> isbnArg.s, Page |-> pageNum, Line |-> lineNum]]

(***************************************************************************)
(* Book.#searchForLineBreakedTerm and Book.#addSearchResult.               *)
(***************************************************************************)
Last(arr) == arr[Len(arr)]

\* The check with searchTerm.endsWith(subsequentLineStart) in place of the
\* comparison of the left-over string.
searchForLineBreakedTermEndsWith(term, currentLineText, subsequentLineText) ==
    IF isNull(subsequentLineText) \/ ~EndsWith(currentLineText, <<Hyphen>>)
    THEN [err |-> NoError, val |-> FALSE]
    ELSE LET lineEnd == ReplaceFirstHyphen(Last(Match(currentLineText)))
         IN  IF ~StartsWith(term, lineEnd)
             THEN [err |-> NoError, val |-> FALSE]
             ELSE IF Match(subsequentLineText.s) = <<>>
             THEN [err |-> "shift", val |-> FALSE]
             ELSE [err |-> NoError,
                   val |-> EndsWith(term, Head(Match(subsequentLineText.s)))]

\* subsequentLineText is a JavaScript value: a string or null.
searchForLineBreakedTerm(term, currentLineText, subsequentLineText) ==
    IF isNull(subsequentLineText) \/ ~EndsWith(currentLineText, <<Hyphen>>)
    THEN [err |-> NoError, val |-> FALSE]
    ELSE LET lineEnd == ReplaceFirstHyphen(Last(Match(currentLineText)))
         IN  IF ~StartsWith(term, lineEnd)
             THEN [err |-> NoError, val |-> FALSE]
             ELSE IF Match(subsequentLineText.s) = <<>>
             THEN [err |-> "shift", val |-> FALSE]
             ELSE [err |-> NoError,
                   val |-> Substring(term, Len(lineEnd))
                               = Head(Match(subsequentLineText.s))]

\* A lookup that falls back to the next stored line of the page.
LineTextAtOrAfter(content, page, line) ==
    IF page \in DOMAIN content /\ \E l \in DOMAIN content[page] : l >= line
    THEN Str(content[page][CHOOSE l \in DOMAIN content[page] :
                              /\ l >= line
                              /\ \A k \in DOMAIN content[page] : k >= line => l <= k].text)
    ELSE Null

\* this.#contentArr[page][line]: the stored line's text, or null when absent.
LineTextAt(content, page, line) ==
    IF page \in DOMAIN content /\ line \in DOMAIN content[page]
    THEN Str(content[page][line].text)
    ELSE Null

\* The three tests as independent statements instead of an else-if chain: the
\* hyphen-break test also runs on a line that matched.
addSearchResultEveryPath(content, isbnArg, pageLineTextObj, term, resultArr) ==
    LET here == SearchResult(pageLineTextObj.page, pageLineTextObj.line, isbnArg)
        next == SearchResult(pageLineTextObj.page, pageLineTextObj.line + 1, isbnArg)
        lineText == pageLineTextObj.text
        matched == \/ ArrIncludes(Match(lineText), term)
                   \/ Includes(term, <<Space>>) /\ Includes(lineText, term)
        first == IF matched THEN Append(resultArr, here.obj) ELSE resultArr
        broken == searchForLineBreakedTerm(term, lineText,
                      LineTextAt(content, pageLineTextObj.page, pageLineTextObj.line + 1))
    IN  IF broken.err # NoError
        THEN [err |-> broken.err, arr |-> resultArr]
        ELSE IF broken.val
        THEN [err |-> IF here.err # NoError THEN here.err ELSE next.err,
              arr |-> first \o <<here.obj, next.obj>>]
        ELSE [err |-> here.err, arr |-> first]

\* The records pushed for one line; err is the error thrown while doing so.
addSearchResult(content, isbnArg, pageLineTextObj, term, resultArr) ==
    LET here == SearchResult(pageLineTextObj.page, pageLineTextObj.line, isbnArg)
        next == SearchResult(pageLineTextObj.page, pageLineTextObj.line + 1, isbnArg)
        lineText == pageLineTextObj.text
        wordArr == Match(lineText)
        broken == searchForLineBreakedTerm(term, lineText,
                      LineTextAt(content, pageLineTextObj.page, pageLineTextObj.line + 1))
    IN  IF ArrIncludes(wordArr, term)
        THEN [err |-> here.err, arr |-> Append(resultArr, here.obj)]
        ELSE IF Includes(term, <<Space>>) /\ Includes(lineText, term)
        THEN [err |-> here.err, arr |-> Append(resultArr, here.obj)]
        ELSE IF broken.err # NoError
        THEN [err |-> broken.err, arr |-> resultArr]
        ELSE IF broken.val
        THEN [err |-> IF here.err # NoError THEN here.err ELSE next.err,
              arr |-> resultArr \o <<here.obj, next.obj>>]
        ELSE [err |-> NoError, arr |-> resultArr]

(***************************************************************************)
(* State of one call findSearchTermInBooks(searchTerm, scannedTextObj).    *)
(***************************************************************************)
VARIABLES
    searchTerm,        \* argument: a JavaScript value
    scannedTextObj,    \* argument: [t, a] with a the array of book records
    pc,                \* position in the call
    err,               \* the error thrown, NoError while none
    bookIdx,           \* position of the for-of loop over scannedTextObj
    title,             \* Book.#title of the book being built or searched
    isbn,              \* Book.#isbn
    contentArr,        \* Book.#contentArr: page -> line -> PageLineText
    entryIdx,          \* position of the constructor's loop over contentArr
    pageNumArr,        \* searchForTerm: sorted page keys
    pageIdx,           \* position in pageNumArr
    lineNumArr,        \* searchForTerm: sorted line keys of the current page
    lineIdx,           \* position in lineNumArr
    resultArr,         \* searchForTerm: result array of the current book
    returned,          \* the arrays searchForTerm returned, one per book
    overallResultArr,  \* findSearchTermInBooks: overall result array
    resultJSON,        \* the returned object, NoJSON until the call returns
    calledISBN,        \* argument of a direct call Book.validateISBN(calledISBN)
    isValid,           \* what that call returned
    created,           \* the (page, line) keys of #contentArr in creation order
    wordArr            \* #addSearchResult: the tokens of the line last visited

vars == <<searchTerm, scannedTextObj, pc, err, bookIdx, title, isbn, contentArr,
          entryIdx, pageNumArr, pageIdx, lineNumArr, lineIdx, resultArr,
          returned, overallResultArr, resultJSON, calledISBN, isValid, created,
          wordArr>>

NoJSON == [SearchTerm |-> <<>>, Results |-> <<>>]

Arr(a) == [t |-> "object", a |-> a]
NullArr == [t |-> "null", a |-> <<>>]
\* {}: typeof gives "object", for-of throws the TypeError "is not iterable"
PlainObject == [t |-> "plain", a |-> <<>>]

\* for (const x of v) can start: v is an array
IsIterable(v) == v.t = "object"

\* The class without its second range: /[\u0000-\u001F]/
IsControlCharC0(c) == c >= 0 /\ c <= 31

\* /[\u0000-\u001F\u007F-\u009F]/
IsControlChar(c) == (c >= 0 /\ c <= 31) \/ (c >= 127 /\ c <= 159)

\* Concatenation with the operands swapped.
ConcatSwapped(overall, result) == result \o overall

\* overallResultArr.concat(resultArr)
Concat(overall, result) == overall \o result

\* The argument checks of findSearchTermInBooks: the error they throw.
ArgumentError(term, books) ==
    IF isNull(term) \/ TypeOf(term) # "string" THEN "searchTermType"
    ELSE IF term.s = <<>> THEN "searchTermEmpty"
    ELSE IF \E i \in 1..Len(term.s) : IsControlChar(term.s[i]) THEN "controlChars"
    ELSE IF isNull(books) \/ TypeOf(books) # "object" THEN "scannedTextObj"
    ELSE NoError

\* The checks of the Book constructor before its loop: the error they throw.
BookArgumentError(titleArg, isbnArg, contentArg) ==
    IF isNull(titleArg) \/ TypeOf(titleArg) # "string" THEN "title"
    ELSE IF isNull(isbnArg) \/ TypeOf(isbnArg) # "string" THEN "isbn"
    ELSE IF isNull(contentArg) \/ TypeOf(contentArg) # "object" THEN "contentArr"
    ELSE IF titleArg.s = <<>> THEN "emptyTitle"
    ELSE IF validateISBN(isbnArg).err # NoError THEN validateISBN(isbnArg).err
    ELSE IF ~validateISBN(isbnArg).val THEN "invalidISBN"
    ELSE NoError

\* A duplicate test on the truthiness of the stored text.
HasLineWithText(content, page, line) ==
    page \in DOMAIN content /\ line \in DOMAIN content[page]
        /\ content[page][line].text # <<>>

\* isNull(this.#contentArr[pageNum][lineNum]) once the page object exists
HasLine(content, page, line) ==
    page \in DOMAIN content /\ line \in DOMAIN content[page]

\* A store that starts a new page object on every entry.
PutLineOnNewPage(content, obj) ==
    (obj.page :> (obj.line :> obj)) @@ content

\* this.#contentArr[pageNum][lineNum] = pageLineTextObj
PutLine(content, obj) ==
    LET pageObj == IF obj.page \in DOMAIN content THEN content[obj.page] ELSE <<>>
    IN  (obj.page :> ((obj.line :> obj) @@ pageObj)) @@ content

\* An error that is caught, the call returning normally.
ThrowCaught(e) ==
    /\ pc' = "done"
    /\ err' = e

Throw(e) ==
    /\ pc' = "error"
    /\ err' = e

\* findSearchTermInBooks up to the start of its for-of loop, lines 462-482
Call ==
    /\ pc = "call"
    /\ IF ArgumentError(searchTerm, scannedTextObj) # NoError
       THEN /\ Throw(ArgumentError(searchTerm, scannedTextObj))
            /\ UNCHANGED <<overallResultArr, bookIdx>>
       ELSE IF ~IsIterable(scannedTextObj)
       THEN /\ Throw("notIterable")
            /\ UNCHANGED <<overallResultArr, bookIdx>>
       ELSE /\ pc' = "loop"
            /\ overallResultArr' = <<>>
            /\ bookIdx' = 1
            /\ err' = err
    /\ UNCHANGED <<searchTerm, scannedTextObj, title, isbn, contentArr, entryIdx,
                   pageNumArr, pageIdx, lineNumArr, lineIdx, resultArr, returned,
                   resultJSON, calledISBN, isValid, wordArr, created>>

\* new Book(bookJSON["Title"], bookJSON["ISBN"], bookJSON["Content"]), lines 70-93
NewBook ==
    /\ pc = "loop"
    /\ bookIdx <= Len(scannedTextObj.a)
    /\ LET bookJSON == scannedTextObj.a[bookIdx]
           e == BookArgumentError(bookJSON.Title, bookJSON.ISBN, bookJSON.Content)
       IN  IF e # NoError
           THEN /\ Throw(e)
                /\ UNCHANGED <<title, isbn, contentArr, created, entryIdx>>
           ELSE IF ~IsIterable(bookJSON.Content)
           THEN /\ Throw("notIterable")
                /\ UNCHANGED <<title, isbn, contentArr, created, entryIdx>>
           ELSE /\ pc' = "construct"
                /\ title' = bookJSON.Title.s
                /\ isbn' = bookJSON.ISBN
                /\ contentArr' = <<>>
                /\ created' = <<>>
                /\ entryIdx' = 1
                /\ err' = err
    /\ UNCHANGED <<searchTerm, scannedTextObj, bookIdx, pageNumArr, pageIdx,
                   lineNumArr, lineIdx, resultArr, returned, overallResultArr,
                   resultJSON, calledISBN, isValid, wordArr>>

\* One iteration of the constructor's loop, lines 96-120
AddEntry ==
    /\ pc = "construct"
    /\ entryIdx <= Len(scannedTextObj.a[bookIdx].Content.a)
    /\ LET contentJSON == scannedTextObj.a[bookIdx].Content.a[entryIdx]
           made == PageLineText(contentJSON.Page, contentJSON.Line, contentJSON.Text)
       IN  IF made.err # NoError
           THEN /\ Throw(made.err)
                /\ UNCHANGED <<contentArr, created, entryIdx>>
           ELSE IF HasLine(contentArr, made.obj.page, made.obj.line)
           THEN /\ Throw("duplicate")
                /\ UNCHANGED <<contentArr, created, entryIdx>>
           ELSE /\ contentArr' = PutLine(contentArr, made.obj)
                /\ created' = Append(created, <<made.obj.page, made.obj.line>>)
                /\ entryIdx' = entryIdx + 1
                /\ UNCHANGED <<pc, err>>
    /\ UNCHANGED <<searchTerm, scannedTextObj, bookIdx, title, isbn, pageNumArr,
                   pageIdx, lineNumArr, lineIdx, resultArr, returned,
                   overallResultArr, resultJSON,
                   calledISBN, isValid, wordArr>>

\* searchForTerm entered after the constructor's loop ended, lines 170-183
SearchForTerm ==
    /\ pc = "construct"
    /\ entryIdx > Len(scannedTextObj.a[bookIdx].Content.a)
    /\ pc' = "pages"
    /\ resultArr' = <<>>
    /\ pageNumArr' = Sort(ObjectKeys(contentArr, [i \in 1..Len(created) |-> created[i][1]]))
    /\ pageIdx' = 1
    /\ UNCHANGED <<searchTerm, scannedTextObj, err, bookIdx, title, isbn, contentArr,
                   entryIdx, lineNumArr, lineIdx, returned, overallResultArr,
                   resultJSON, calledISBN, isValid, wordArr, created>>

\* Outer loop of searchForTerm takes the next page, lines 185-187
EnterPage ==
    /\ pc = "pages"
    /\ pageIdx <= Len(pageNumArr)
    /\ pc' = "lines"
    /\ LET pageNum == ParseKey(pageNumArr[pageIdx])
           onPage(c) == c[1] = pageNum
           lines == SelectSeq(created, onPage)
       IN  lineNumArr' = Sort(ObjectKeys(contentArr[pageNum],
                                         [i \in 1..Len(lines) |-> lines[i][2]]))
    /\ lineIdx' = 1
    /\ UNCHANGED <<searchTerm, scannedTextObj, err, bookIdx, title, isbn, contentArr,
                   entryIdx, pageNumArr, pageIdx, resultArr, returned,
                   overallResultArr, resultJSON,
                   calledISBN, isValid, wordArr, created>>

\* Inner loop of searchForTerm: #addSearchResult on the next line, lines 189-191
VisitLine ==
    /\ pc = "lines"
    /\ lineIdx <= Len(lineNumArr)
    /\ LET pageObj == contentArr[ParseKey(pageNumArr[pageIdx])]
           lineObj == pageObj[ParseKey(lineNumArr[lineIdx])]
           added == addSearchResult(contentArr, isbn, lineObj, searchTerm.s, resultArr)
       IN  /\ wordArr' = Match(lineObj.text)
           /\ IF added.err # NoError
              THEN /\ Throw(added.err)
                   /\ UNCHANGED <<resultArr, lineIdx>>
              ELSE /\ resultArr' = added.arr
                   /\ lineIdx' = lineIdx + 1
                   /\ UNCHANGED <<pc, err>>
    /\ UNCHANGED <<searchTerm, scannedTextObj, bookIdx, title, isbn, contentArr,
                   entryIdx, pageNumArr, pageIdx, lineNumArr, returned,
                   overallResultArr, resultJSON,
                   calledISBN, isValid, created>>

\* An inner loop end that deletes the page it has gone through.
LeavePageConsuming ==
    /\ pc = "lines"
    /\ lineIdx > Len(lineNumArr)
    /\ pc' = "pages"
    /\ pageIdx' = pageIdx + 1
    /\ contentArr' = [p \in DOMAIN contentArr \ {ParseKey(pageNumArr[pageIdx])}
                         |-> contentArr[p]]
    /\ UNCHANGED <<searchTerm, scannedTextObj, err, bookIdx, title, isbn,
                   entryIdx, pageNumArr, lineNumArr, lineIdx, resultArr, returned,
                   overallResultArr, resultJSON,
                   calledISBN, isValid, wordArr, created>>

\* Inner loop exhausted: back to the outer loop
LeavePage ==
    /\ pc = "lines"
    /\ lineIdx > Len(lineNumArr)
    /\ pc' = "pages"
    /\ pageIdx' = pageIdx + 1
    /\ UNCHANGED <<searchTerm, scannedTextObj, err, bookIdx, title, isbn, contentArr,
                   entryIdx, pageNumArr, lineNumArr, lineIdx, resultArr, returned,
                   overallResultArr, resultJSON,
                   calledISBN, isValid, wordArr, created>>

\* searchForTerm returns resultArr; the caller concatenates it, lines 193, 484-486
ReturnResultArr ==
    /\ pc = "pages"
    /\ pageIdx > Len(pageNumArr)
    /\ pc' = "loop"
    /\ returned' = Append(returned, resultArr)
    /\ overallResultArr' = Concat(overallResultArr, resultArr)
    /\ bookIdx' = bookIdx + 1
    /\ UNCHANGED <<searchTerm, scannedTextObj, err, title, isbn, contentArr, entryIdx,
                   pageNumArr, pageIdx, lineNumArr, lineIdx, resultArr, resultJSON,
                   calledISBN, isValid, wordArr, created>>

\* for-of loop exhausted: build and return resultJSON, lines 488-493
ReturnJSON ==
    /\ pc = "loop"
    /\ bookIdx > Len(scannedTextObj.a)
    /\ pc' = "done"
    /\ resultJSON' = [SearchTerm |-> searchTerm.s, Results |-> overallResultArr]
    /\ UNCHANGED <<searchTerm, scannedTextObj, err, bookIdx, title, isbn, contentArr,
                   entryIdx, pageNumArr, pageIdx, lineNumArr, lineIdx, resultArr,
                   returned, overallResultArr, calledISBN, isValid, wordArr, created>>

\* A direct call of the static Book.validateISBN(calledISBN), lines 132-138
ValidateISBNCall ==
    /\ pc = "validateISBN"
    /\ IF validateISBN(calledISBN).err # NoError
       THEN /\ Throw(validateISBN(calledISBN).err)
            /\ UNCHANGED isValid
       ELSE /\ pc' = "returned"
            /\ isValid' = validateISBN(calledISBN).val
            /\ err' = err
    /\ UNCHANGED <<searchTerm, scannedTextObj, bookIdx, title, isbn, contentArr,
                   entryIdx, pageNumArr, pageIdx, lineNumArr, lineIdx, resultArr,
                   returned, overallResultArr, resultJSON, calledISBN, wordArr, created>>

Next ==
    \/ Call
    \/ NewBook
    \/ AddEntry
    \/ SearchForTerm
    \/ EnterPage
    \/ VisitLine
    \/ LeavePage
    \/ ReturnResultArr
    \/ ReturnJSON

(***************************************************************************)
(* Inputs.                                                                 *)
(***************************************************************************)
MaxBooks == 2
MaxEntries == 2
MaxLines == 3
MaxTextLen == 3
MaxNextLen == 1
MaxTermLen == 3

\* All strings over a set of code units with length in lo..hi.
Strings(chars, lo, hi) == UNION {[1..n -> chars] : n \in lo..hi}

\* All sequences over S with length at most n.
SeqsUpTo(S, n) == UNION {[1..k -> S] : k \in 0..n}

Repeat(c, n) == [i \in 1..n |-> c]

\* Nothing has run yet: no error, no book, no results.
Fresh ==
    /\ err = NoError
    /\ bookIdx = 0
    /\ title = <<>>
    /\ isbn = Null
    /\ contentArr = <<>>
    /\ entryIdx = 0
    /\ pageNumArr = <<>>
    /\ pageIdx = 0
    /\ lineNumArr = <<>>
    /\ lineIdx = 0
    /\ resultArr = <<>>
    /\ returned = <<>>
    /\ overallResultArr = <<>>
    /\ resultJSON = NoJSON
    /\ isValid = FALSE
    /\ wordArr = <<>>
    /\ created = <<>>

\* State before findSearchTermInBooks(term, books) runs.
Start(term, books) ==
    /\ searchTerm = term
    /\ scannedTextObj = books
    /\ calledISBN = Null
    /\ pc = "call"
    /\ Fresh

ValidTitle == Str(<<UpperA>>)
ISBN10 == Str(Repeat(Digit0, 10))
ISBN13 == Str(Repeat(Digit9, 10 + 3))

\* Page and line numbers whose decimal strings differ in length and first digit.
PageNums == {4, 12}
LineNums == {9, 10}

\* Raw line texts of the corpus inputs: "-", " A", "1 1"; terms "A" and " ".
Digit1 == 49
CorpusTexts == {<<Hyphen>>, <<Space, UpperA>>, <<Digit1, Space, Digit1>>}
CorpusTerms == {<<UpperA>>, <<Space>>}

ValidEntries(texts) ==
    {[Page |-> Num(p), Line |-> Num(l), Text |-> Str(x)] :
        p \in PageNums, l \in LineNums, x \in texts}

\* Entries the PageLineText constructor rejects: page 0, line -1, page 4.5,
\* an entry without the three keys, a text that is null, a text that is a number.
InvalidEntries ==
    {[Page |-> Num(0), Line |-> Num(9), Text |-> Str(<<LowerA>>)],
     [Page |-> Num(4), Line |-> Num(0 - 1), Text |-> Str(<<LowerA>>)],
     [Page |-> NumHalf(4), Line |-> Num(9), Text |-> Str(<<LowerA>>)],
     [Page |-> Undefined, Line |-> Undefined, Text |-> Undefined],
     [Page |-> Num(4), Line |-> Num(9), Text |-> Null],
     [Page |-> Num(4), Line |-> Num(9), Text |-> Num(1)]}

\* Entries of the corpus inputs: the valid ones and one the constructor rejects.
Entries ==
    ValidEntries(CorpusTexts)
    \cup {[Page |-> Num(0), Line |-> Num(9), Text |-> Str(<<LowerA>>)]}

\* Book records the constructor rejects before reading any entry.
InvalidBooks ==
    {[Title |-> Null, ISBN |-> ISBN10, Content |-> Arr(<<>>)],
     [Title |-> Str(<<>>), ISBN |-> ISBN10, Content |-> Arr(<<>>)],
     [Title |-> ValidTitle, ISBN |-> Null, Content |-> Arr(<<>>)],
     [Title |-> ValidTitle, ISBN |-> Str(Repeat(Digit0, 1)), Content |-> Arr(<<>>)],
     [Title |-> ValidTitle, ISBN |-> ISBN10, Content |-> NullArr],
     [Title |-> ValidTitle, ISBN |-> ISBN10, Content |-> PlainObject]}

\* The i-th book of a corpus, when valid, carries a 10-digit identifier at odd
\* positions and a 13-digit one at even positions.
EmptyBook(i) ==
    [Title |-> ValidTitle, ISBN |-> IF i % 2 = 1 THEN ISBN10 ELSE ISBN13,
     Content |-> Arr(<<>>)]

RECURSIVE SumTo(_, _)
SumTo(f, n) == IF n = 0 THEN 0 ELSE f[n] + SumTo(f, n - 1)

\* The corpus whose i-th book is hdr[i] with the next shape[i] entries of ents.
Corpus(n, shape, hdr, ents) ==
    [i \in 1..n |->
        IF hdr[i] \in InvalidBooks THEN hdr[i]
        ELSE [hdr[i] EXCEPT
                 !.Content = Arr(SubSeq(ents, SumTo(shape, i - 1) + 1, SumTo(shape, i)))]]

\* Corpora of at most MaxBooks books holding at most MaxEntries entries in all;
\* a book the constructor rejects outright comes last, no book after it is read.
Init ==
    \E term \in CorpusTerms, n \in 0..MaxBooks :
        \E shape \in [1..n -> 0..MaxEntries] :
            /\ SumTo(shape, n) <= MaxEntries
            /\ \E hdr \in [1..n -> {EmptyBook(1), EmptyBook(2)} \cup InvalidBooks] :
                   /\ \A i \in 1..n : hdr[i] \in InvalidBooks \/ hdr[i] = EmptyBook(i)
                   /\ \A i \in 1..n : hdr[i] \in InvalidBooks => shape[i] = 0 /\ i = n
                   /\ \E ents \in [1..SumTo(shape, n) -> Entries] :
                          Start(Str(term), Arr(Corpus(n, shape, hdr, ents)))

Spec == Init /\ [][Next]_vars

\* Raw line texts of the single-book inputs: "", " A ", "-"; the term is "A".
BookTexts == {<<>>, <<Space, UpperA, Space>>, <<Hyphen>>}

BookEntries == ValidEntries(BookTexts) \cup InvalidEntries

\* A corpus of one book of at most MaxLines entries, valid or not; a book the
\* constructor rejects before its loop has no entries.
InitBook ==
    \/ \E ents \in SeqsUpTo(BookEntries, MaxLines) :
           Start(Str(<<UpperA>>), Arr(<<[EmptyBook(1) EXCEPT !.Content = Arr(ents)]>>))
    \/ \E b \in InvalidBooks : Start(Str(<<UpperA>>), Arr(<<b>>))

SpecBook == InitBook /\ [][Next]_vars

\* Code units of a line that a hyphen break may end, of the line after it, and
\* of the terms searched across the two.
TailChars == {LowerA, Hyphen, Space}
HeadChars == {UpperA, Hyphen, Space}
BreakTermChars == {LowerA, UpperA, Hyphen}

TextBook(lines) == [Title |-> ValidTitle, ISBN |-> ISBN10, Content |-> Arr(lines)]

TextEntry(l, x) == [Page |-> Num(4), Line |-> Num(l), Text |-> Str(x)]

\* One valid book: either a single line, text and term any strings over
\* Alphabet, or the two consecutive lines 9 and 10 of page 4.
InitText ==
    \/ \E term \in Strings(Alphabet, 1, MaxTermLen), x \in Strings(Alphabet, 0, MaxTextLen) :
           Start(Str(term), Arr(<<TextBook(<<TextEntry(9, x)>>)>>))
    \/ \E term \in Strings(BreakTermChars, 1, MaxTermLen),
          x \in Strings(TailChars, 0, MaxTextLen),
          y \in Strings(HeadChars, 0, MaxNextLen) :
           Start(Str(term), Arr(<<TextBook(<<TextEntry(9, x), TextEntry(10, y)>>)>>))

SpecText == InitText /\ [][Next]_vars

(***************************************************************************)
(* Direct calls of Book.validateISBN.                                      *)
(***************************************************************************)
MaxISBNLen == 14

\* Code units next to the digits and the delimiters an ISBN is printed with.
NonDigits == {Hyphen, Space, Digit0 - 1, Digit9 + 1, LowerA}

\* Runs of one digit, and such runs with one code unit replaced by a non-digit.
ISBNStrings ==
    LET runs == {Repeat(d, n) : d \in {Digit0, Digit9}, n \in 0..MaxISBNLen}
    IN  runs \cup UNION {{[r EXCEPT ![i] = c] : i \in 1..Len(r), c \in NonDigits} :
                            r \in runs}

ISBNInputs == {Str(x) : x \in ISBNStrings} \cup {Null, Undefined, Num(0), Num(123)}

InitISBN ==
    \E x \in ISBNInputs :
        /\ searchTerm = Null
        /\ scannedTextObj = NullArr
        /\ calledISBN = x
        /\ pc = "validateISBN"
        /\ Fresh

NextISBN == ValidateISBNCall

SpecISBN == InitISBN /\ [][NextISBN]_vars

(***************************************************************************)
(* Properties.                                                             *)
(***************************************************************************)
\* searchForTerm has visited every line of the current book and is about to
\* return resultArr.
SearchFinished == pc = "pages" /\ pageIdx > Len(pageNumArr)

\* The match record of the current book at (p, l).
Rec(p, l) == [ISBN |-> isbn.s, Page |-> p, Line |-> l]

\* (page, line) of r1 is lexicographically smaller than that of r2.
Before(r1, r2) ==
    r1.Page < r2.Page \/ (r1.Page = r2.Page /\ r1.Line < r2.Line)

StrictlyAscending(arr) ==
    \A i \in 1..(Len(arr) - 1) : Before(arr[i], arr[i + 1])

RECURSIVE Flatten(_)
Flatten(seqs) == IF seqs = <<>> THEN <<>> ELSE Head(seqs) \o Flatten(Tail(seqs))

\* C1: every array searchForTerm returns is in strictly ascending
\* (page, line) order, also for lines 9 and 10 or pages 4 and 12.
C1_StrictlyAscending ==
    \A k \in 1..Len(returned) : StrictlyAscending(returned[k])

LinesOf(content) ==
    UNION {{<<p, l>> : l \in DOMAIN content[p]} : p \in DOMAIN content}

\* The stored text of line (p, l) of the current book.
TextOf(p, l) == contentArr[p][l].text

\* s[i..j] is a token: a maximal run of word characters.
IsToken(s, i, j) ==
    /\ i <= j
    /\ \A k \in i..j : IsWordChar(s[k])
    /\ i = 1 \/ ~IsWordChar(s[i - 1])
    /\ j = Len(s) \/ ~IsWordChar(s[j + 1])

TokenSpans(s) == {sp \in (1..Len(s)) \X (1..Len(s)) : IsToken(s, sp[1], sp[2])}

Tokens(s) == {SubSeq(s, sp[1], sp[2]) : sp \in TokenSpans(s)}

FirstToken(s) ==
    LET sp == CHOOSE a \in TokenSpans(s) : \A b \in TokenSpans(s) : a[1] <= b[1]
    IN  SubSeq(s, sp[1], sp[2])

LastToken(s) ==
    LET sp == CHOOSE a \in TokenSpans(s) : \A b \in TokenSpans(s) : a[2] >= b[2]
    IN  SubSeq(s, sp[1], sp[2])

\* The last token of a line that ends with a hyphen, without that hyphen.
Fragment(s) == SubSeq(LastToken(s), 1, Len(LastToken(s)) - 1)

\* Line (p, l) of the current book is among the records of arr.
Reported(arr, p, l) == \E i \in 1..Len(arr) : arr[i] = Rec(p, l)

\* The term matches line (p, l) in exact or in phrase mode.
MatchesOnLine(p, l) ==
    \/ searchTerm.s \in Tokens(TextOf(p, l))
    \/ Includes(searchTerm.s, <<Space>>) /\ Includes(TextOf(p, l), searchTerm.s)

\* Line (p, l) ends with the token T-, line (p, l + 1) exists and starts with
\* the token H, and the term is T followed by H.
BrokenAcross(p, l) ==
    /\ <<p, l + 1>> \in LinesOf(contentArr)
    /\ EndsWith(TextOf(p, l), <<Hyphen>>)
    /\ TokenSpans(TextOf(p, l + 1)) # {}
    /\ searchTerm.s = Fragment(TextOf(p, l)) \o FirstToken(TextOf(p, l + 1))

\* C3: when line (P, L) ends with the token T-, line (P, L+1) exists with
\* first token H, the term is T followed by H and did not match line L in
\* exact or phrase mode, the result holds the record of (P, L) immediately
\* followed by the record of (P, L+1).
C3_HyphenBreakRecorded ==
    SearchFinished =>
        \A c \in LinesOf(contentArr) :
            (BrokenAcross(c[1], c[2]) /\ ~MatchesOnLine(c[1], c[2])) =>
                \E i \in 1..(Len(resultArr) - 1) :
                    /\ resultArr[i] = Rec(c[1], c[2])
                    /\ resultArr[i + 1] = Rec(c[1], c[2] + 1)

\* No line of the current book ends with a hyphen.
NoHyphenEnd ==
    \A c \in LinesOf(contentArr) : ~EndsWith(TextOf(c[1], c[2]), <<Hyphen>>)

\* C4: for a term without a space and a book none of whose lines ends with a
\* hyphen, the search completes and a line is reported exactly when the term
\* equals one of its tokens, case-sensitively and as a whole token.
C4_ExactWordMatch ==
    (TypeOf(searchTerm) = "string" /\ ~Includes(searchTerm.s, <<Space>>)) =>
        /\ (SearchFinished /\ NoHyphenEnd) =>
               \A c \in LinesOf(contentArr) :
                   Reported(resultArr, c[1], c[2])
                       <=> searchTerm.s \in Tokens(TextOf(c[1], c[2]))
        /\ (pc = "error" /\ bookIdx > 0) => ~NoHyphenEnd

\* The term "a" was searched in the lines "a" and "A": only the former is
\* reported.
C4_Witness ==
    /\ SearchFinished
    /\ searchTerm.s = <<LowerA>>
    /\ LinesOf(contentArr) = {<<4, 9>>, <<4, 10>>}
    /\ TextOf(4, 9) = <<LowerA>>
    /\ TextOf(4, 10) = <<UpperA>>
    /\ resultArr = <<Rec(4, 9)>>

\* Every book record of the input is well formed: title, identifier and all
\* entries valid, no two entries of a book at the same coordinate.
WellFormedEntry(e) ==
    /\ e.Page.t = "number" /\ ~e.Page.h /\ e.Page.n >= 1
    /\ e.Line.t = "number" /\ ~e.Line.h /\ e.Line.n >= 1
    /\ e.Text.t = "string"

WellFormedHeader(b) ==
    /\ b.Title.t = "string" /\ b.Title.s # <<>>
    /\ b.ISBN.t = "string" /\ Len(b.ISBN.s) \in {10, 13}
    /\ \A i \in 1..Len(b.ISBN.s) : b.ISBN.s[i] \in Digit0..Digit9
    /\ b.Content.t = "object"

DistinctCoordinates(ents) ==
    \A i, j \in 1..Len(ents) :
        (ents[i].Page = ents[j].Page /\ ents[i].Line = ents[j].Line) => i = j

WellFormedBook(b) ==
    /\ WellFormedHeader(b)
    /\ \A i \in 1..Len(b.Content.a) : WellFormedEntry(b.Content.a[i])
    /\ DistinctCoordinates(b.Content.a)

\* C5: for a term with a space and a corpus of valid books, the call returns
\* and a line is reported, once, exactly when its trimmed text contains the
\* term as a contiguous substring.
C5_PhraseMatch ==
    (/\ pc \in {"done", "error"}
     /\ TypeOf(searchTerm) = "string"
     /\ Includes(searchTerm.s, <<Space>>)
     /\ \A k \in 1..Len(scannedTextObj.a) : WellFormedBook(scannedTextObj.a[k])) =>
        /\ pc = "done"
        /\ \A k \in 1..Len(scannedTextObj.a) :
               \A i \in 1..Len(scannedTextObj.a[k].Content.a) :
                   LET e == scannedTextObj.a[k].Content.a[i]
                       hits == {j \in 1..Len(returned[k]) :
                                   /\ returned[k][j].Page = e.Page.n
                                   /\ returned[k][j].Line = e.Line.n}
                   IN  IF Includes(Trim(e.Text.s), searchTerm.s)
                       THEN Cardinality(hits) = 1
                       ELSE hits = {}

\* C6: a line is recorded together with its successor only when the term is
\* exactly the fragment before the line's final hyphen followed by the whole
\* first token of the next line.
C6_OnlyExactCompletion ==
    [][(pc = "lines" /\ Len(resultArr') = Len(resultArr) + 2) =>
          BrokenAcross(ParseKey(pageNumArr[pageIdx]), ParseKey(lineNumArr[lineIdx]))]_vars

(***************************************************************************)
(* Book.validateISBN and the Book constructor.                             *)
(***************************************************************************)
\* C7: Book.validateISBN returns true exactly for the strings of exactly 10
\* or exactly 13 decimal digits, false for every other string, and throws,
\* returning nothing, for every input that is not a string.
C7_ValidateISBN ==
    /\ (pc = "returned" /\ isValid) <=>
           (/\ pc # "validateISBN"
            /\ calledISBN.t = "string"
            /\ Len(calledISBN.s) \in {10, 13}
            /\ \A i \in 1..Len(calledISBN.s) : calledISBN.s[i] \in Digit0..Digit9)
    /\ pc = "error" <=> (pc # "validateISBN" /\ calledISBN.t # "string")

\* A string of 13 digits has been accepted.
C7_Witness ==
    /\ pc = "returned"
    /\ isValid
    /\ Len(calledISBN.s) = 13

\* The book record being constructed or searched, and its entries.
BookJSON == scannedTextObj.a[bookIdx]
EntriesJSON == BookJSON.Content.a

InBook == pc \in {"construct", "pages", "lines", "error"} /\ bookIdx >= 1

\* The constructor has returned a Book for the current book record.
Constructed ==
    \/ pc \in {"pages", "lines"}
    \/ pc = "construct" /\ entryIdx > Len(EntriesJSON)
    \/ pc = "error" /\ err \in SearchErrors

\* The constructor has thrown.
ConstructionFailed ==
    pc = "error" /\ bookIdx >= 1 /\ err \in ValidationErrors \cup DuplicateErrors

\* Position of the first entry that is not well formed, 0 when there is none.
FirstInvalid(ents) ==
    IF \A i \in 1..Len(ents) : WellFormedEntry(ents[i]) THEN 0
    ELSE CHOOSE i \in 1..Len(ents) :
             /\ ~WellFormedEntry(ents[i])
             /\ \A j \in 1..(i - 1) : WellFormedEntry(ents[j])

\* Position of the first entry whose coordinate an earlier entry has, 0 when
\* there is none.
IsRepeat(ents, j) ==
    \E i \in 1..(j - 1) : ents[i].Page = ents[j].Page /\ ents[i].Line = ents[j].Line

FirstRepeat(ents) ==
    IF \A j \in 1..Len(ents) : ~IsRepeat(ents, j) THEN 0
    ELSE CHOOSE j \in 1..Len(ents) :
             IsRepeat(ents, j) /\ \A k \in 1..(j - 1) : ~IsRepeat(ents, k)

IsTrimmed(t, raw) ==
    \E a, b \in 0..Len(raw) :
        /\ a + b <= Len(raw)
        /\ t = SubSeq(raw, a + 1, Len(raw) - b)
        /\ \A k \in 1..a : IsWhiteSpace(raw[k])
        /\ \A k \in (Len(raw) - b + 1)..Len(raw) : IsWhiteSpace(raw[k])
        /\ t = <<>> \/ (~IsWhiteSpace(t[1]) /\ ~IsWhiteSpace(t[Len(t)]))

\* C10: a constructed Book's index holds exactly the coordinates of the input
\* entries, and at each of them a line record of that coordinate whose text
\* is the entry's text without surrounding white space.
C10_IndexRoundTrip ==
    (InBook /\ Constructed) =>
        /\ LinesOf(contentArr)
               = {<<EntriesJSON[i].Page.n, EntriesJSON[i].Line.n>> : i \in 1..Len(EntriesJSON)}
        /\ \A i \in 1..Len(EntriesJSON) :
               LET p == EntriesJSON[i].Page.n
                   l == EntriesJSON[i].Line.n
               IN  /\ contentArr[p][l].page = p
                   /\ contentArr[p][l].line = l
                   /\ IsTrimmed(contentArr[p][l].text, EntriesJSON[i].Text.s)

\* A Book of three lines on two pages has been constructed, one of them from
\* the raw text " A ".
C10_Witness ==
    /\ InBook
    /\ Constructed
    /\ Cardinality(LinesOf(contentArr)) = 3
    /\ DOMAIN contentArr = {4, 12}
    /\ \E i \in 1..Len(EntriesJSON) :
           /\ EntriesJSON[i].Text.s = <<Space, UpperA, Space>>
           /\ TextOf(EntriesJSON[i].Page.n, EntriesJSON[i].Line.n) = <<UpperA>>

(***************************************************************************)
(* The arguments of findSearchTermInBooks.                                 *)
(***************************************************************************)
MaxArgTermLen == 2

\* Code units at the edges of the two ranges of the control-character class.
EdgeChars == {0, 31, 127 - 1, 127, 159, 159 + 1}

\* Terms: values that are not strings, the empty string, and strings over "A",
\* the space and the edge code units.
ArgTerms ==
    {Null, Undefined, Num(1)}
    \cup {Str(x) : x \in Strings({UpperA, Space} \cup EdgeChars, 0, MaxArgTermLen)}

\* Values passed for the corpus that are not arrays: null, undefined, a
\* number, a string, the object {}.
NonArrays ==
    {NullArr, [t |-> "undefined", a |-> <<>>], [t |-> "number", a |-> <<>>],
     [t |-> "string", a |-> <<>>], PlainObject}

\* Corpora: the empty one, one book of one line, a book the constructor
\* rejects after such a book.
ArgCorpora ==
    {Arr(<<>>)}
    \cup {Arr(<<TextBook(<<TextEntry(9, x)>>)>>) : x \in CorpusTexts}
    \cup {Arr(<<TextBook(<<TextEntry(9, x)>>), b>>) : x \in CorpusTexts, b \in InvalidBooks}

InitArgs ==
    \E term \in ArgTerms, books \in NonArrays \cup ArgCorpora : Start(term, books)

SpecArgs == InitArgs /\ [][Next]_vars

\* The term is not a string, is empty, or holds a control character.
BadTerm ==
    \/ searchTerm.t # "string"
    \/ searchTerm.s = <<>>
    \/ \E i \in 1..Len(searchTerm.s) :
           searchTerm.s[i] \in (0..31) \cup (127..159)

\* The corpus argument cannot be iterated: it is null, undefined, a number
\* or an object that is not an array.
BadBooks == scannedTextObj.t \in {"null", "undefined", "number", "plain"}

\* C11: with a term that is not a string, is empty or holds a character of
\* U+0000-U+001F or U+007F-U+009F, or with a corpus argument that is not
\* iterable, findSearchTermInBooks throws a validation error before it reads
\* any book and returns nothing, whatever the corpus holds.
C11_ArgumentsValidated ==
    (BadTerm \/ BadBooks) =>
        /\ pc \in {"call", "error"}
        /\ pc = "error" => err \in ValidationErrors
        /\ bookIdx = 0
        /\ resultJSON = NoJSON

\* The call threw on a term holding U+009F, the corpus being empty.
C11_Witness ==
    /\ pc = "error"
    /\ searchTerm = Str(<<UpperA, 159>>)
    /\ scannedTextObj = Arr(<<>>)
    /\ err = "controlChars"

\* C12: when some book record of the corpus fails construction, at whatever
\* position, the call never returns: no result object exists in any state,
\* and the matches of the books searched before it reach no caller.
C12_AllOrNothing ==
    /\ (\E k \in 1..Len(scannedTextObj.a) : ~WellFormedBook(scannedTextObj.a[k])) =>
           pc # "done"
    /\ pc # "done" => resultJSON = NoJSON

\* The constructor threw on the second book after the first book's search
\* had returned matches.
C12_Witness ==
    /\ pc = "error"
    /\ err \in ValidationErrors \cup DuplicateErrors
    /\ bookIdx = 2
    /\ Len(returned) = 1
    /\ returned[1] # <<>>
    /\ resultJSON = NoJSON

(***************************************************************************)
(* Tokenization.                                                           *)
(***************************************************************************)
\* Code units on both sides of every end of the ranges of Book.#WORD_REGEX,
\* and the separators space, full stop and digit.
RangeEdges ==
    {64, 65, 90, 91, 96, 97, 122, 123, 191, 192, 214, 215, 216, 221, 222,
     223, 224, 246, 247, 248, 255, 256, Apostrophe, Hyphen, Space, 46, Digit1}

\* A letter, an accented letter, the apostrophe, the hyphen, and the
\* separators space, digit, full stop and multiplication sign.
TokenAlphabet == {UpperA, 233, Apostrophe, Hyphen, Space, Digit1, 46, 215}

\* The non-empty contiguous parts of a text.
PartsOf(x) == {SubSeq(x, i, j) : i \in 1..Len(x), j \in 1..Len(x)} \ {<<>>}

\* One book of one line: a single code unit of RangeEdges or a text over
\* TokenAlphabet; the term is a part of the text, or "A".
InitTokens ==
    \E x \in Strings(RangeEdges, 1, 1) \cup Strings(TokenAlphabet, 0, MaxTextLen) :
        \E term \in PartsOf(x) \cup {<<UpperA>>} :
            Start(Str(term), Arr(<<TextBook(<<TextEntry(9, x)>>)>>))

SpecTokens == InitTokens /\ [][Next]_vars

\* The characters a token is made of.
TokenChars ==
    (65..90) \cup (97..122) \cup {39, 45} \cup (192..214) \cup (216..221)
    \cup (224..246) \cup (248..255)

\* s[i..j] is a maximal run of token characters.
IsRun(s, i, j) ==
    /\ i <= j
    /\ \A k \in i..j : s[k] \in TokenChars
    /\ i = 1 \/ s[i - 1] \notin TokenChars
    /\ j = Len(s) \/ s[j + 1] \notin TokenChars

Runs(s) == {sp \in (1..Len(s)) \X (1..Len(s)) : IsRun(s, sp[1], sp[2])}

\* w lists the maximal runs of s from left to right.
IsTokenList(w, s) ==
    /\ Len(w) = Cardinality(Runs(s))
    /\ \A sp \in Runs(s) :
           w[Cardinality({o \in Runs(s) : o[1] <= sp[1]})] = SubSeq(s, sp[1], sp[2])

\* The line the inner loop has just processed.
VisitedPage == ParseKey(pageNumArr[pageIdx])
VisitedLine == ParseKey(lineNumArr[lineIdx - 1])

\* C13: the token list of a processed line is exactly the left-to-right list
\* of the maximal runs of characters of A-Z, a-z, apostrophe, hyphen, À-Ö,
\* Ø-Ý, à-ö, ø-ÿ in its text, and a term equal to one of these runs makes the
\* line's record the one appended.
C13_Tokenization ==
    (pc = "lines" /\ lineIdx > 1) =>
        /\ IsTokenList(wordArr, TextOf(VisitedPage, VisitedLine))
        /\ (\E k \in 1..Len(wordArr) : wordArr[k] = searchTerm.s) =>
               /\ resultArr # <<>>
               /\ Last(resultArr) = Rec(VisitedPage, VisitedLine)

\* The line "é1A" has been processed for the term "é": its tokens are "é"
\* and "A", the digit belongs to neither, and the line is reported.
C13_Witness ==
    /\ pc = "lines"
    /\ lineIdx > 1
    /\ TextOf(VisitedPage, VisitedLine) = <<233, Digit1, UpperA>>
    /\ wordArr = <<<<233>>, <<UpperA>>>>
    /\ searchTerm.s = <<233>>
    /\ resultArr = <<Rec(4, 9)>>

(***************************************************************************)
(* What a call leaves unchanged.                                           *)
(***************************************************************************)
\* C14: no step of a call, succeeding or failing, changes the corpus passed
\* in, and no step of searchForTerm changes the Book's index table: the table
\* is written by the constructor only.
C14_NoVisibleChange ==
    [][/\ scannedTextObj' = scannedTextObj
       /\ searchTerm' = searchTerm
       /\ pc \in {"pages", "lines"} => contentArr' = contentArr]_vars

\* A call over two books has returned with matches of the first book, whose
\* entry still carries its raw text " A" although the index stored "A".
C14_Witness ==
    /\ pc = "done"
    /\ Len(scannedTextObj.a) = 2
    /\ scannedTextObj.a[1].Content.a # <<>>
    /\ scannedTextObj.a[1].Content.a[1].Text.s = <<Space, UpperA>>
    /\ returned[1] # <<>>
    /\ resultJSON.Results # <<>>

(***************************************************************************)
(* The order in which searchForTerm visits the index.                      *)
(***************************************************************************)
\* The numbers the keys of arr stand for increase from left to right.
AscendingKeys(arr) ==
    \A i, j \in 1..Len(arr) : i < j => ParseKey(arr[i]) < ParseKey(arr[j])

\* C15: searchForTerm goes through the pages in ascending numeric order and,
\* within a page, through its lines in ascending numeric order, also for
\* numbers of different lengths or leading digits.
C15_AscendingVisit ==
    /\ pc \in {"pages", "lines"} => AscendingKeys(pageNumArr)
    /\ pc = "lines" => AscendingKeys(lineNumArr)

(***************************************************************************)
(* The hyphen-break check.                                                 *)
(***************************************************************************)
\* The line the inner loop is about to process.
CurrentPage == ParseKey(pageNumArr[pageIdx])
CurrentLine == ParseKey(lineNumArr[lineIdx])

\* The term starts with tail and what follows tail is exactly head.
Completes(tail, head) ==
    /\ Len(searchTerm.s) = Len(tail) + Len(head)
    /\ SubSeq(searchTerm.s, 1, Len(tail)) = tail
    /\ SubSeq(searchTerm.s, Len(tail) + 1, Len(searchTerm.s)) = head

\* C16: the tail the hyphen-break check compares the term with is the line's
\* last token without its trailing hyphen, inner hyphens kept: processing a
\* line that matches neither by word nor by phrase, ends with a hyphen and is
\* followed at line + 1 by a line with a token appends the two records
\* whenever the term is that tail followed by the next line's first token.
C16_TailKeepsInnerHyphens ==
    [][(/\ pc = "lines"
        /\ lineIdx <= Len(lineNumArr)
        /\ ~MatchesOnLine(CurrentPage, CurrentLine)
        /\ EndsWith(TextOf(CurrentPage, CurrentLine), <<Hyphen>>)
        /\ <<CurrentPage, CurrentLine + 1>> \in LinesOf(contentArr)
        /\ TokenSpans(TextOf(CurrentPage, CurrentLine + 1)) # {}
        /\ Completes(Fragment(TextOf(CurrentPage, CurrentLine)),
                     FirstToken(TextOf(CurrentPage, CurrentLine + 1)))) =>
          resultArr' = resultArr \o <<Rec(CurrentPage, CurrentLine),
                                      Rec(CurrentPage, CurrentLine + 1)>>]_vars

\* Coordinates of a line stored after the line (4, 9): the next line, a later
\* line of the page, the first and another line of the next page, the line
\* before.
AfterCoordinates == {<<4, 10>>, <<4, 11>>, <<5, 1>>, <<5, 10>>, <<4, 8>>}

\* One book of two lines, the first at (4, 9) over "a" and the hyphen, the
\* second at one of AfterCoordinates over "A" and the space; terms over "a"
\* and "A".
InitBreak ==
    \E x \in Strings({LowerA, Hyphen}, 1, MaxTermLen - 1),
       y \in Strings({UpperA, Space}, 0, MaxNextLen),
       c \in AfterCoordinates,
       term \in Strings({LowerA, UpperA}, 1, MaxTermLen - 1) :
        Start(Str(term),
              Arr(<<TextBook(<<TextEntry(9, x),
                               [Page |-> Num(c[1]), Line |-> Num(c[2]), Text |-> Str(y)]>>)>>))

SpecBreak == InitBreak /\ [][Next]_vars

\* C17: processing the line at (P, L) appends a hyphen-break pair only if the
\* line's text ends with a hyphen and a line is stored at exactly (P, L + 1),
\* and the pair is (P, L), (P, L + 1): a later line of the page or a line of
\* another page never completes the fragment.
C17_OnlyNextLineOfPage ==
    [][(pc = "lines" /\ Len(resultArr') = Len(resultArr) + 2) =>
          /\ EndsWith(TextOf(CurrentPage, CurrentLine), <<Hyphen>>)
          /\ <<CurrentPage, CurrentLine + 1>> \in LinesOf(contentArr)
          /\ resultArr' = resultArr \o <<Rec(CurrentPage, CurrentLine),
                                         Rec(CurrentPage, CurrentLine + 1)>>]_vars

\* The term "aA" was searched in a book whose line (4, 9) is "a-" and whose
\* only other line, "A", is at (4, 11) or on page 5: nothing is reported.
C17_Witness ==
    /\ SearchFinished
    /\ searchTerm.s = <<LowerA, UpperA>>
    /\ TextOf(4, 9) = <<LowerA, Hyphen>>
    /\ \E c \in {<<4, 11>>, <<5, 1>>} :
           /\ LinesOf(contentArr) = {<<4, 9>>, c}
           /\ TextOf(c[1], c[2]) = <<UpperA>>
    /\ resultArr = <<>>

\* C18: processing a line takes at most one path. A line that matches by word
\* or by phrase gets exactly one record, however often the term occurs in it
\* and whether or not it ends with a fragment the next line completes, and
\* the hyphen-break check is not run on it; any other line gets the pair of
\* the hyphen-break path or nothing.
C18_OnePathPerLine ==
    [][(pc = "lines" /\ lineIdx <= Len(lineNumArr)) =>
          IF MatchesOnLine(CurrentPage, CurrentLine)
          THEN /\ pc' = "lines"
               /\ resultArr' = Append(resultArr, Rec(CurrentPage, CurrentLine))
          ELSE \/ resultArr' = resultArr
               \/ resultArr' = resultArr \o <<Rec(CurrentPage, CurrentLine),
                                              Rec(CurrentPage, CurrentLine + 1)>>]_vars

\* The term "-" was searched in the lines "- -" and "-": line 9 holds the
\* term twice and ends with a fragment line 10 completes, and each line is
\* reported once.
C18_Witness ==
    /\ SearchFinished
    /\ searchTerm.s = <<Hyphen>>
    /\ LinesOf(contentArr) = {<<4, 9>>, <<4, 10>>}
    /\ TextOf(4, 9) = <<Hyphen, Space, Hyphen>>
    /\ TextOf(4, 10) = <<Hyphen>>
    /\ Len(resultArr) = 2
    /\ Reported(resultArr, 4, 9)
    /\ Reported(resultArr, 4, 10)

(***************************************************************************)
(* The order of the raw content entries.                                   *)
(***************************************************************************)
\* Coordinates of the permuted entries: array indices with different first
\* digits, and numbers from 2^32 - 1 on, whose keys Object.keys lists in
\* creation order.
PermCoordinates ==
    {<<4, 1>>, <<12, 1>>, <<Beyond, 1>>, <<Beyond + 1, 1>>, <<4, Beyond>>, <<4, Beyond + 1>>}

PermEntry(c) == [Page |-> Num(c[1]), Line |-> Num(c[2]), Text |-> Str(<<UpperA>>)]

\* Two books with the same header; the content of the second is a permutation
\* of the content of the first, at most MaxLines entries of distinct
\* coordinates. The term is "A", which every line matches.
InitPerm ==
    \E n \in 1..MaxLines :
        \E cs \in [1..n -> PermCoordinates], perm \in [1..n -> 1..n] :
            /\ \A i, j \in 1..n : i # j => cs[i] # cs[j] /\ perm[i] # perm[j]
            /\ Start(Str(<<UpperA>>),
                     Arr(<<TextBook([i \in 1..n |-> PermEntry(cs[i])]),
                           TextBook([i \in 1..n |-> PermEntry(cs[perm[i]])])>>))

SpecPerm == InitPerm /\ [][Next]_vars

\* The index the constructor builds from valid entries of distinct coordinates.
RECURSIVE IndexOf(_)
IndexOf(ents) ==
    IF ents = <<>> THEN <<>>
    ELSE PutLine(IndexOf(SubSeq(ents, 1, Len(ents) - 1)),
                 PageLineText(ents[Len(ents)].Page, ents[Len(ents)].Line,
                              ents[Len(ents)].Text).obj)

\* C19: a book whose Content is a permutation of another book's Content is
\* constructed with the same index, and searchForTerm returns the same
\* sequence of match records for both.
C19_EntryOrderIrrelevant ==
    /\ bookIdx = 2 /\ pc \in {"pages", "lines"}
           => contentArr = IndexOf(scannedTextObj.a[1].Content.a)
    /\ Len(returned) = 2 => returned[1] = returned[2]

(***************************************************************************)
(* The variant of the program in src/unnamed/part_000. Its argument checks *)
(* and, for books whose fields have the required types, its constructors   *)
(* read as in book_search.js; its searchForTerm tests the line itself and  *)
(* its findSearchTermInBooks keeps the results in resultJSON.Results,      *)
(* which overallResultArr stands for.                                      *)
(***************************************************************************)
Dollar == 36

\* s.split(" ").pop(): what follows the last space of s.
SplitPop(s) ==
    LET spaces == {i \in 1..Len(s) : s[i] = Space}
        from == IF spaces = {} THEN 0 ELSE CHOOSE i \in spaces : \A j \in spaces : j <= i
    IN  SubSeq(s, from + 1, Len(s))

\* s.replace(p, "") with a string pattern: the first occurrence of p removed.
ReplaceFirst(s, p) ==
    LET at == {i \in 1..(Len(s) - Len(p) + 1) : SubSeq(s, i, i + Len(p) - 1) = p}
    IN  IF at = {} THEN s
        ELSE LET i == CHOOSE k \in at : \A j \in at : k <= j
             IN  SubSeq(s, 1, i - 1) \o SubSeq(s, i + Len(p), Len(s))

\* #searchForLineBreakedTerm of the variant. The caller passes the stored line
\* object, not its text: hasSubsequent says that it is defined, and
\* subsequentLineText.split is then not a function.
searchForLineBreakedTermVariant(term, currentLineText, hasSubsequent) ==
    IF ~hasSubsequent
    THEN [err |-> NoError, val |-> FALSE]
    ELSE LET lineEnd == ReplaceFirst(SplitPop(currentLineText), <<Hyphen, Dollar>>)
         IN  IF StartsWith(term, lineEnd)
             THEN [err |-> "split", val |-> FALSE]
             ELSE [err |-> NoError, val |-> FALSE]

\* The body of the inner loop of the variant's searchForTerm. lineNum is the
\* key, a string, so that lineNum + 1 is the key followed by the digit 1.
addSearchResultVariant(content, isbnArg, pageNum, lineNum, term, arr0) ==
    LET pageObj == content[ParseKey(pageNum)]
        lineText == pageObj[ParseKey(lineNum)].text
        nextKey == lineNum \o <<Digit1>>
        here == SearchResult(ParseKey(pageNum), ParseKey(lineNum), isbnArg)
        next == SearchResult(ParseKey(pageNum), ParseKey(nextKey), isbnArg)
        broken == searchForLineBreakedTermVariant(term, lineText,
                                                  ParseKey(nextKey) \in DOMAIN pageObj)
    IN  IF Includes(lineText, term)
        THEN [err |-> here.err, arr |-> Append(arr0, here.obj)]
        ELSE IF ~EndsWith(lineText, <<Hyphen>>)
        THEN [err |-> NoError, arr |-> arr0]
        ELSE IF broken.err # NoError
        THEN [err |-> broken.err, arr |-> arr0]
        ELSE IF broken.val
        THEN [err |-> next.err, arr |-> Append(arr0, next.obj)]
        ELSE [err |-> NoError, arr |-> arr0]

\* Inner loop of the variant's searchForTerm
VisitLineVariant ==
    /\ pc = "lines"
    /\ lineIdx <= Len(lineNumArr)
    /\ LET added == addSearchResultVariant(contentArr, isbn, pageNumArr[pageIdx],
                                           lineNumArr[lineIdx], searchTerm.s, resultArr)
       IN  IF added.err # NoError
           THEN /\ Throw(added.err)
                /\ UNCHANGED <<resultArr, lineIdx>>
           ELSE /\ resultArr' = added.arr
                /\ lineIdx' = lineIdx + 1
                /\ UNCHANGED <<pc, err>>
    /\ UNCHANGED <<searchTerm, scannedTextObj, bookIdx, title, isbn, contentArr,
                   entryIdx, pageNumArr, pageIdx, lineNumArr, returned,
                   overallResultArr, resultJSON, calledISBN, isValid, wordArr, created>>

\* searchForTerm of the variant returns, and the loop body of its
\* findSearchTermInBooks ends: resultJSON.Results.concat(...), whose value is
\* dropped.
ReturnResultArrVariant ==
    /\ pc = "pages"
    /\ pageIdx > Len(pageNumArr)
    /\ pc' = "loop"
    /\ returned' = Append(returned, resultArr)
    /\ bookIdx' = bookIdx + 1
    /\ UNCHANGED <<searchTerm, scannedTextObj, err, title, isbn, contentArr, entryIdx,
                   pageNumArr, pageIdx, lineNumArr, lineIdx, resultArr, overallResultArr,
                   resultJSON, calledISBN, isValid, wordArr, created>>

NextVariant ==
    \/ Call
    \/ NewBook
    \/ AddEntry
    \/ SearchForTerm
    \/ EnterPage
    \/ VisitLineVariant
    \/ LeavePage
    \/ ReturnResultArrVariant
    \/ ReturnJSON

\* Terms "A", "a" and "-A"; lines "A", "-" and "a A"; lines 9, 10 and 91 of
\* page 4, 91 being the key "9" + 1.
VariantTerms == {<<UpperA>>, <<LowerA>>, <<Hyphen, UpperA>>}
VariantTexts == {<<UpperA>>, <<Hyphen>>, <<LowerA, Space, UpperA>>}
VariantLines == {9, 10, 91}
VariantEntries == {TextEntry(l, x) : l \in VariantLines, x \in VariantTexts}

\* Corpora of at most MaxBooks valid books holding at most MaxEntries entries
\* in all.
InitVariant ==
    \E term \in VariantTerms, n \in 0..MaxBooks :
        \E shape \in [1..n -> 0..MaxEntries] :
            /\ SumTo(shape, n) <= MaxEntries
            /\ \E ents \in [1..SumTo(shape, n) -> VariantEntries] :
                   Start(Str(term), Arr(Corpus(n, shape, [i \in 1..n |-> EmptyBook(i)], ents)))

SpecVariant == InitVariant /\ [][NextVariant]_vars

\* C20: when the variant's findSearchTermInBooks returns, Results is the
\* concatenation of the arrays searchForTerm returned for the books, so that
\* a corpus with a line that matches the term gives non-empty Results.
C20_VariantResultsAreConcatenation ==
    pc = "done" =>
        /\ resultJSON.Results = Flatten(returned)
        /\ ((\E k \in 1..Len(returned) : returned[k] # <<>>) => resultJSON.Results # <<>>)

(***************************************************************************)
(* Errors raised by the search itself.                                     *)
(***************************************************************************)
\* C21: once a Book is constructed, searchForTerm raises no error, also when
\* a line ending with a hyphen fragment the term starts with is followed at
\* line + 1 by a line without tokens.
C21_SearchNeverThrows == err \notin SearchErrors

(***************************************************************************)
(* Coordinates reported more than once.                                    *)
(***************************************************************************)
MaxRepeatLen == 4

\* One valid book with lines 9 and 10 of page 4: line 9 is "a-", "A-" or "a",
\* line 10 any text over a, A and space, the term one or two letters.
InitRepeat ==
    \E term \in Strings({LowerA, UpperA}, 1, 2),
       x \in {<<LowerA, Hyphen>>, <<UpperA, Hyphen>>, <<LowerA>>},
       y \in Strings({LowerA, UpperA, Space}, 0, MaxRepeatLen) :
        Start(Str(term), Arr(<<TextBook(<<TextEntry(9, x), TextEntry(10, y)>>)>>))

SpecRepeat == InitRepeat /\ [][Next]_vars

\* C22: no two match records of one searchForTerm call have the same
\* (page, line), also when line L matches by hyphen-break and line L + 1
\* matches on its own.
C22_NoCoordinateTwice ==
    /\ \A i, j \in 1..Len(resultArr) :
           (resultArr[i].Page = resultArr[j].Page /\ resultArr[i].Line = resultArr[j].Line)
               => i = j
    /\ \A k \in 1..Len(returned) : \A i, j \in 1..Len(returned[k]) :
           (returned[k][i].Page = returned[k][j].Page
            /\ returned[k][i].Line = returned[k][j].Line) => i = j

(***************************************************************************)
(* What a match record carries.                                            *)
(***************************************************************************)
\* Record r names book b and a coordinate of positive integers that is among
\* the content entries of b.
RecordOfBook(r, b) ==
    /\ r.ISBN = b.ISBN.s
    /\ r.Page \in Nat \ {0}
    /\ r.Line \in Nat \ {0}
    /\ \E i \in 1..Len(b.Content.a) :
           /\ b.Content.a[i].Page = Num(r.Page)
           /\ b.Content.a[i].Line = Num(r.Line)

\* C23: every match record carries the identifier of the book it was found
\* in and a coordinate of positive integers at which the index of that book
\* holds a line: the records collected so far, those searchForTerm returned
\* and those of Results.
C23_RecordsPointIntoBook ==
    /\ pc \in {"pages", "lines"} =>
           \A i \in 1..Len(resultArr) :
               /\ RecordOfBook(resultArr[i], BookJSON)
               /\ <<resultArr[i].Page, resultArr[i].Line>> \in LinesOf(contentArr)
    /\ \A k \in 1..Len(returned) : \A i \in 1..Len(returned[k]) :
           RecordOfBook(returned[k][i], scannedTextObj.a[k])
    /\ pc = "done" =>
           \A i \in 1..Len(resultJSON.Results) :
               \E k \in 1..Len(scannedTextObj.a) :
                   RecordOfBook(resultJSON.Results[i], scannedTextObj.a[k])

\* The call has returned records of two books with different identifiers.
C23_Witness ==
    /\ pc = "done"
    /\ Len(resultJSON.Results) = 2
    /\ resultJSON.Results[1].ISBN # resultJSON.Results[2].ISBN
    /\ resultJSON.Results[1].Page # resultJSON.Results[1].Line

(***************************************************************************)
(* The two parts of a hyphen-broken term.                                  *)
(***************************************************************************)
\* C24: whenever processing a line appends the hyphen-break pair, the line's
\* last token holds a non-empty fragment before its final hyphen and the next
\* line a non-empty first token, so that the term is split into two
\* non-empty parts; a lone hyphen followed by a line that starts with the
\* whole term is not a hyphen-break match.
C24_BothPartsNonEmpty ==
    [][(pc = "lines" /\ Len(resultArr') = Len(resultArr) + 2) =>
          /\ Fragment(TextOf(CurrentPage, CurrentLine)) # <<>>
          /\ TokenSpans(TextOf(CurrentPage, CurrentLine + 1)) # {}
          /\ FirstToken(TextOf(CurrentPage, CurrentLine + 1)) # <<>>
          /\ Len(FirstToken(TextOf(CurrentPage, CurrentLine + 1))) < Len(searchTerm.s)]_vars

(***************************************************************************)
(* Terms that contain a space.                                             *)
(***************************************************************************)
\* One valid book with lines 9 and 10 of page 4: line 9 over "a", space and
\* hyphen, line 10 over "A" and space; terms over "a", "A" and space.
InitPhrase ==
    \E term \in Strings({LowerA, UpperA, Space}, 1, MaxTermLen),
       x \in Strings({LowerA, Space, Hyphen}, 0, MaxTextLen),
       y \in Strings({UpperA, Space}, 0, MaxNextLen) :
        Start(Str(term), Arr(<<TextBook(<<TextEntry(9, x), TextEntry(10, y)>>)>>))

SpecPhrase == InitPhrase /\ [][Next]_vars

\* C25: for a term that contains a space, every line reported holds the whole
\* term as a contiguous substring of its own trimmed text; no line is
\* reported because the term is split across two lines.
C25_PhraseNeverBroken ==
    (TypeOf(searchTerm) = "string" /\ Includes(searchTerm.s, <<Space>>)) =>
        /\ pc \in {"pages", "lines"} =>
               \A i \in 1..Len(resultArr) :
                   /\ <<resultArr[i].Page, resultArr[i].Line>> \in LinesOf(contentArr)
                   /\ Includes(TextOf(resultArr[i].Page, resultArr[i].Line), searchTerm.s)
        /\ \A k \in 1..Len(returned) : \A i \in 1..Len(returned[k]) :
               \E j \in 1..Len(scannedTextObj.a[k].Content.a) :
                   LET e == scannedTextObj.a[k].Content.a[j]
                   IN  /\ e.Page = Num(returned[k][i].Page)
                       /\ e.Line = Num(returned[k][i].Line)
                       /\ IsTrimmed(Trim(e.Text.s), e.Text.s)
                       /\ Includes(Trim(e.Text.s), searchTerm.s)

\* The term "a A" was searched in a book whose line 9 is "a-" and whose line
\* 10 is "A": the search has returned and reported nothing.
C25_Witness ==
    /\ pc = "done"
    /\ searchTerm.s = <<LowerA, Space, UpperA>>
    /\ scannedTextObj.a[1].Content.a[1].Text.s = <<LowerA, Hyphen>>
    /\ scannedTextObj.a[1].Content.a[2].Text.s = <<UpperA>>
    /\ resultJSON.Results = <<>>

(***************************************************************************)
(* Terms with a character no token can hold.                               *)
(***************************************************************************)
\* One valid book with lines 9 and 10 of page 4: line 9 over "A", "1" and
\* hyphen, line 10 over "A" and "1"; terms over "A", "1" and hyphen.
InitOutside ==
    \E term \in Strings({UpperA, Digit1, Hyphen}, 1, MaxTermLen),
       x \in Strings({UpperA, Digit1, Hyphen}, 0, MaxTextLen),
       y \in Strings({UpperA, Digit1}, 0, MaxNextLen) :
        Start(Str(term), Arr(<<TextBook(<<TextEntry(9, x), TextEntry(10, y)>>)>>))

SpecOutside == InitOutside /\ [][Next]_vars

\* The term is a string without a space that holds a character outside the
\* token character set.
OutsideTerm ==
    /\ TypeOf(searchTerm) = "string"
    /\ ~Includes(searchTerm.s, <<Space>>)
    /\ \E i \in 1..Len(searchTerm.s) : searchTerm.s[i] \notin TokenChars

\* C26: for a term without a space that holds a character outside the token
\* character set the search of every book yields zero matches, whatever the
\* text of the book: the search raises no error, and no match record is ever
\* collected, returned or placed in Results.
C26_OutsideTermNeverMatches ==
    OutsideTerm =>
        /\ err \notin SearchErrors
        /\ resultArr = <<>>
        /\ \A k \in 1..Len(returned) : returned[k] = <<>>
        /\ overallResultArr = <<>>
        /\ resultJSON.Results = <<>>
====
